---- MODULE Spec2Model ----
(***************************************************************************)
(* A model of mmdet/models/backbones/emov2.py: the windowed self-attention *)
(* operators (EW_MHSA_Remote, EW_MHSA_Close, EW_MHSA_Hybrid), the inverted *)
(* residual block (iiRMB) and the EMO2 backbone (construction, checkpoint  *)
(* loading, stage freezing, train-mode switching and forward).             *)
(*                                                                         *)
(* A feature tensor is a record [B, H, W, d]: batch, height, width and the *)
(* elements d[<<b, r, c>>].  The attention operators are modelled with one *)
(* channel and one head (dim_in = dim_head = dim_mid = 1), so that the     *)
(* channel axis, which every rearrange pattern of the tilings leaves in    *)
(* place, is not carried.  The block and the backbone are modelled on      *)
(* shapes <<B, C, H, W>>.                                                  *)
(***************************************************************************)
EXTENDS Integers, Sequences, FiniteSets, TLC

VARIABLES att, blk, emo

vars == <<att, blk, emo>>

(***************************************************************************)
(* Bounds of the model.                                                    *)
(***************************************************************************)
MaxB == 2
MaxSide == 4
MaxWin == 3

(***************************************************************************)
(* Tensors.                                                                *)
(***************************************************************************)
Idx(b, h, w) == (0..(b - 1)) \X (0..(h - 1)) \X (0..(w - 1))

RECURSIVE Sum(_, _)
Sum(f, n) == IF n = 0 THEN 0 ELSE f[n - 1] + Sum(f, n - 1)

Max(a, b) == IF a >= b THEN a ELSE b

\* F.pad(x, (pad_l, pad_r, pad_t, pad_b, 0, 0)): zeros around the two last axes.
Pad(x, pad_l, pad_r, pad_t, pad_b) ==
    LET Hp == x.H + pad_t + pad_b
        Wp == x.W + pad_l + pad_r
    IN  [B |-> x.B, H |-> Hp, W |-> Wp,
         d |-> [p \in Idx(x.B, Hp, Wp) |->
                  LET r == p[2] - pad_t
                      c == p[3] - pad_l
                  IN  IF r >= 0 /\ r < x.H /\ c >= 0 /\ c < x.W
                      THEN x.d[<<p[1], r, c>>]
                      ELSE 0]]

\* x[:, :, :H, :W]
Crop(x, H, W) ==
    LET Hc == IF H < x.H THEN H ELSE x.H
        Wc == IF W < x.W THEN W ELSE x.W
    IN  [B |-> x.B, H |-> Hc, W |-> Wc,
         d |-> [p \in Idx(x.B, Hc, Wc) |-> x.d[p]]]

\* The columns tiled as the close variant does: 'b c (h1 n1) (n2 w1) -> ...'.
TileRemote_ColsClose(x, n1, n2) ==
    LET h1 == x.H \div n1
        w1 == x.W \div n2
    IN  [B |-> x.B * n1 * n2, H |-> h1, W |-> w1,
         d |-> [p \in Idx(x.B * n1 * n2, h1, w1) |->
                  LET b  == p[1] \div (n1 * n2)
                      i1 == (p[1] \div n2) % n1
                      i2 == p[1] % n2
                  IN  x.d[<<b, p[2] * n1 + i1, i2 * w1 + p[3]>>]]]

\* rearrange(x, 'b c (h1 n1) (w1 n2) -> (b n1 n2) c h1 w1', n1=n1, n2=n2)
TileRemote(x, n1, n2) ==
    LET h1 == x.H \div n1
        w1 == x.W \div n2
    IN  [B |-> x.B * n1 * n2, H |-> h1, W |-> w1,
         d |-> [p \in Idx(x.B * n1 * n2, h1, w1) |->
                  LET b  == p[1] \div (n1 * n2)
                      i1 == (p[1] \div n2) % n1
                      i2 == p[1] % n2
                  IN  x.d[<<b, p[2] * n1 + i1, p[3] * n2 + i2>>]]]

\* rearrange(x, 'b c (n1 h1) (n2 w1) -> (b n1 n2) c h1 w1', n1=n1, n2=n2)
TileClose(x, n1, n2) ==
    LET h1 == x.H \div n1
        w1 == x.W \div n2
    IN  [B |-> x.B * n1 * n2, H |-> h1, W |-> w1,
         d |-> [p \in Idx(x.B * n1 * n2, h1, w1) |->
                  LET b  == p[1] \div (n1 * n2)
                      i1 == (p[1] \div n2) % n1
                      i2 == p[1] % n2
                  IN  x.d[<<b, i1 * h1 + p[2], i2 * w1 + p[3]>>]]]

\* rearrange(t, '(b n1 n2) c h1 w1 -> b c (h1 n1) (w1 n2)', n1=n1, n2=n2)
UntileRemote(t, n1, n2) ==
    LET b == t.B \div (n1 * n2)
    IN  [B |-> b, H |-> t.H * n1, W |-> t.W * n2,
         d |-> [p \in Idx(b, t.H * n1, t.W * n2) |->
                  t.d[<<(p[1] * n1 + (p[2] % n1)) * n2 + (p[3] % n2),
                        p[2] \div n1, p[3] \div n2>>]]]

\* The rows un-tiled as the remote variant does: '... -> b c (h1 n1) (n2 w1)'.
UntileClose_RowsRemote(t, n1, n2) ==
    LET b == t.B \div (n1 * n2)
    IN  [B |-> b, H |-> t.H * n1, W |-> n2 * t.W,
         d |-> [p \in Idx(b, t.H * n1, n2 * t.W) |->
                  t.d[<<(p[1] * n1 + (p[2] % n1)) * n2 + (p[3] \div t.W),
                        p[2] \div n1, p[3] % t.W>>]]]

\* rearrange(t, '(b n1 n2) c h1 w1 -> b c (n1 h1) (n2 w1)', n1=n1, n2=n2)
UntileClose(t, n1, n2) ==
    LET b == t.B \div (n1 * n2)
    IN  [B |-> b, H |-> n1 * t.H, W |-> n2 * t.W,
         d |-> [p \in Idx(b, n1 * t.H, n2 * t.W) |->
                  t.d[<<(p[1] * n1 + (p[2] \div t.H)) * n2 + (p[3] \div t.W),
                        p[2] % t.H, p[3] % t.W>>]]]

(***************************************************************************)
(* The pointwise projections and the attention of one window.              *)
(*                                                                         *)
(* self.qk and self.v are ConvNormAct layers of kernel size 1 without      *)
(* normalisation: one affine map applied at every position (w.q, w.k, w.v  *)
(* the weights, w.b the bias of qkv_bias), followed for v by the           *)
(* activation.  An attended value is a fraction <<num, den>>: the weights  *)
(* of a row are Exp(q_i * k_j) / Sum_j Exp(q_i * k_j), and Exp, positive   *)
(* and increasing, stands for the exponential of softmax.                  *)
(***************************************************************************)
Exp(s) == 1 + s

QProj(x, w) == [x EXCEPT !.d = [p \in DOMAIN x.d |-> w.q * x.d[p] + w.b]]

KProj(x, w) == [x EXCEPT !.d = [p \in DOMAIN x.d |-> w.k * x.d[p] + w.b]]

\* self.v on a tensor of plain numbers
VProj(x, w) == [x EXCEPT !.d = [p \in DOMAIN x.d |-> Max(0, w.v * x.d[p] + w.b)]]

\* self.v on a tensor of attended values
VProjFrac(x, w) ==
    [x EXCEPT !.d = [p \in DOMAIN x.d |->
                       <<Max(0, w.v * x.d[p][1] + w.b * x.d[p][2]), x.d[p][2]>>]]

\* softmax(q @ k^T * scale) @ v per window (batch entry); token = (h w)
Attend(q, k, v) ==
    LET n == q.H * q.W
        At(t, b, j) == t.d[<<b, j \div q.W, j % q.W>>]
    IN  [B |-> q.B, H |-> q.H, W |-> q.W,
         d |-> [p \in Idx(q.B, q.H, q.W) |->
                  LET i == p[2] * q.W + p[3]
                      wgt == [j \in 0..(n - 1) |->
                                Exp(At(q, p[1], i) * At(k, p[1], j))]
                  IN  <<Sum([j \in 0..(n - 1) |-> wgt[j] * At(v, p[1], j)], n),
                        Sum(wgt, n)>>]]

FracAdd(a, b) == <<a[1] * b[2] + b[1] * a[2], a[2] * b[2]>>

\* x_spa_remote + x_spa_close
TensorAdd(x, y) == [x EXCEPT !.d = [p \in DOMAIN x.d |-> FracAdd(x.d[p], y.d[p])]]

(***************************************************************************)
(* Padding of the three forwards.                                          *)
(***************************************************************************)
WindowSizeH(window_size, H) == IF window_size <= 0 THEN H ELSE window_size

WindowSizeW(window_size, W) == IF window_size <= 0 THEN W ELSE window_size

PadLeft == 0

PadTop == 0

PadRight(window_size, W) ==
    (WindowSizeW(window_size, W) - (W % WindowSizeW(window_size, W)))
        % WindowSizeW(window_size, W)

\* The outer modulo forgotten: a whole window is added to a height that fits.
PadBottom_NoOuterMod(window_size, H) ==
    WindowSizeH(window_size, H) - (H % WindowSizeH(window_size, H))

PadBottom(window_size, H) ==
    (WindowSizeH(window_size, H) - (H % WindowSizeH(window_size, H)))
        % WindowSizeH(window_size, H)

NumWinH(window_size, H) ==
    (H + PadBottom(window_size, H)) \div WindowSizeH(window_size, H)

NumWinW(window_size, W) ==
    (W + PadRight(window_size, W)) \div WindowSizeW(window_size, W)

PadInput(x, window_size) ==
    Pad(x, PadLeft, PadRight(window_size, x.W), PadTop, PadBottom(window_size, x.H))

Unpad(x_spa, x, window_size) ==
    IF PadRight(window_size, x.W) > 0 \/ PadBottom(window_size, x.H) > 0
    THEN Crop(x_spa, x.H, x.W)
    ELSE x_spa

(***************************************************************************)
(* EW_MHSA_Remote.forward                                                  *)
(***************************************************************************)
RemoteForward(x, window_size, attn_pre, w) ==
    LET n1 == NumWinH(window_size, x.H)
        n2 == NumWinW(window_size, x.W)
        xt == TileRemote(PadInput(x, window_size), n1, n2)
        x_spa == IF attn_pre
                 THEN VProjFrac(Attend(QProj(xt, w), KProj(xt, w), xt), w)
                 ELSE Attend(QProj(xt, w), KProj(xt, w), VProj(xt, w))
    IN  Unpad(UntileRemote(x_spa, n1, n2), x, window_size)

(***************************************************************************)
(* EW_MHSA_Close.forward                                                   *)
(***************************************************************************)
CloseForward(x, window_size, attn_pre, w) ==
    LET n1 == NumWinH(window_size, x.H)
        n2 == NumWinW(window_size, x.W)
        xt == TileClose(PadInput(x, window_size), n1, n2)
        x_spa == IF attn_pre
                 THEN VProjFrac(Attend(QProj(xt, w), KProj(xt, w), xt), w)
                 ELSE Attend(QProj(xt, w), KProj(xt, w), VProj(xt, w))
    IN  Unpad(UntileClose(x_spa, n1, n2), x, window_size)

(***************************************************************************)
(* EW_MHSA_Hybrid.forward                                                  *)
(***************************************************************************)
\* The un-tiling applied to the remote branch's x_spa_remote: the remote
\* pattern under attn_pre and without it.
HybridUntileRemote(t, n1, n2, attn_pre) == UntileRemote(t, n1, n2)

\* The un-tiling applied to the close branch's x_spa_close: under attn_pre the
\* pattern written is '(h1 n1) (w1 n2)', the remote one; without attn_pre it
\* is '(n1 h1) (n2 w1)', the close one.
HybridUntileClose(t, n1, n2, attn_pre) ==
    IF attn_pre THEN UntileRemote(t, n1, n2) ELSE UntileClose(t, n1, n2)

\* The close branch un-tiled with the remote pattern in both branches of attn_pre.
HybridSpa_CloseAsRemote(x, window_size, attn_pre, w) ==
    LET n1 == NumWinH(window_size, x.H)
        n2 == NumWinW(window_size, x.W)
        xp == PadInput(x, window_size)
        q_remote == TileRemote(QProj(xp, w), n1, n2)
        k_remote == TileRemote(KProj(xp, w), n1, n2)
        q_close  == TileClose(QProj(xp, w), n1, n2)
        k_close  == TileClose(KProj(xp, w), n1, n2)
    IN  IF attn_pre
        THEN VProjFrac(
               TensorAdd(UntileRemote(Attend(q_remote, k_remote,
                                             TileRemote(xp, n1, n2)), n1, n2),
                         UntileRemote(Attend(q_close, k_close,
                                             TileClose(xp, n1, n2)), n1, n2)),
               w)
        ELSE TensorAdd(
               UntileRemote(Attend(q_remote, k_remote,
                                   TileRemote(VProj(xp, w), n1, n2)), n1, n2),
               UntileRemote(Attend(q_close, k_close,
                                   TileClose(VProj(xp, w), n1, n2)), n1, n2))

\* x_spa before the unpadding
HybridSpa(x, window_size, attn_pre, w) ==
    LET n1 == NumWinH(window_size, x.H)
        n2 == NumWinW(window_size, x.W)
        xp == PadInput(x, window_size)
        x_remote == TileRemote(xp, n1, n2)
        x_close  == TileClose(xp, n1, n2)
        q_remote == TileRemote(QProj(xp, w), n1, n2)
        k_remote == TileRemote(KProj(xp, w), n1, n2)
        q_close  == TileClose(QProj(xp, w), n1, n2)
        k_close  == TileClose(KProj(xp, w), n1, n2)
    IN  IF attn_pre
        THEN VProjFrac(
               TensorAdd(HybridUntileRemote(Attend(q_remote, k_remote, x_remote),
                                            n1, n2, attn_pre),
                         HybridUntileClose(Attend(q_close, k_close, x_close),
                                           n1, n2, attn_pre)),
               w)
        ELSE TensorAdd(
               HybridUntileRemote(Attend(q_remote, k_remote,
                                         TileRemote(VProj(xp, w), n1, n2)),
                                  n1, n2, attn_pre),
               HybridUntileClose(Attend(q_close, k_close,
                                        TileClose(VProj(xp, w), n1, n2)),
                                 n1, n2, attn_pre))

HybridForward(x, window_size, attn_pre, w) ==
    Unpad(HybridSpa(x, window_size, attn_pre, w), x, window_size)

(***************************************************************************)
(* The attention operators as a state machine: an operator is built with   *)
(* a window size, attn_pre and weights, and is called on one input.        *)
(***************************************************************************)
Batches == 1..MaxB

Sides == 1..MaxSide

WindowSizes == 0..MaxWin

Weights == { [q |-> 1, k |-> 1, v |-> 1, b |-> 0],
             [q |-> 1, k |-> 2, v |-> 2, b |-> 1] }

Slopes == { <<1, 1>>, <<1, 2>>, <<2, 1>> }

Inputs ==
    { [B |-> b, H |-> h, W |-> w,
       d |-> [p \in Idx(b, h, w) |-> (p[1] + s[1] * p[2] + s[2] * p[3]) % 3]] :
      b \in Batches, h \in Sides, w \in Sides, s \in Slopes }

\* The tensor whose element at a position names the position.
Positions(x) ==
    [x EXCEPT !.d = [p \in DOMAIN x.d |-> (p[1] * x.H + p[2]) * x.W + p[3]]]

NoBlock == [pc |-> "off"]

NoModel == [pc |-> "off"]

NoAttention == [pc |-> "off"]

InitAttn ==
    /\ att \in { [pc |-> "built", x |-> x, window_size |-> ws, attn_pre |-> ap, w |-> w] :
                 x \in Inputs, ws \in WindowSizes, ap \in BOOLEAN, w \in Weights }
    /\ blk = NoBlock
    /\ emo = NoModel

NoTensor == [B |-> 0, H |-> 0, W |-> 0, d |-> [p \in {} |-> 0]]

Called(op, out, pos) ==
    [pc |-> "done", op |-> op, x |-> att.x, window_size |-> att.window_size,
     attn_pre |-> att.attn_pre, w |-> att.w,
     pad |-> [l |-> PadLeft, r |-> PadRight(att.window_size, att.x.W),
              t |-> PadTop, b |-> PadBottom(att.window_size, att.x.H)],
     xp |-> PadInput(att.x, att.window_size),
     n1 |-> NumWinH(att.window_size, att.x.H),
     n2 |-> NumWinW(att.window_size, att.x.W),
     out |-> out, pos |-> pos]

\* pos of a remote call: the padded position each token of each window is
\* gathered from (the padding and the tiling applied to the positions).
RemoteGather(x, window_size) ==
    TileRemote(Positions(PadInput(x, window_size)),
               NumWinH(window_size, x.H), NumWinW(window_size, x.W))

\* pos of a close call, likewise.
CloseGather(x, window_size) ==
    TileClose(Positions(PadInput(x, window_size)),
              NumWinH(window_size, x.H), NumWinW(window_size, x.W))

CallRemote ==
    /\ att.pc = "built"
    /\ att' = Called("remote", RemoteForward(att.x, att.window_size, att.attn_pre, att.w),
                     RemoteGather(att.x, att.window_size))
    /\ UNCHANGED <<blk, emo>>

CallClose ==
    /\ att.pc = "built"
    /\ att' = Called("close", CloseForward(att.x, att.window_size, att.attn_pre, att.w),
                     CloseGather(att.x, att.window_size))
    /\ UNCHANGED <<blk, emo>>

\* pos of a hybrid call: for each branch, where the token gathered from each
\* padded position is put back by the un-tiling the branch applies (attention
\* keeps a token's window and its index in the window).
HybridPlacement(x, window_size, attn_pre) ==
    LET xp == PadInput(x, window_size)
        n1 == NumWinH(window_size, x.H)
        n2 == NumWinW(window_size, x.W)
    IN  [remote |-> HybridUntileRemote(TileRemote(Positions(xp), n1, n2),
                                       n1, n2, attn_pre),
         close  |-> HybridUntileClose(TileClose(Positions(xp), n1, n2),
                                      n1, n2, attn_pre)]

CallHybrid ==
    /\ att.pc = "built"
    /\ att' = Called("hybrid", HybridForward(att.x, att.window_size, att.attn_pre, att.w),
                     HybridPlacement(att.x, att.window_size, att.attn_pre))
    /\ UNCHANGED <<blk, emo>>

\* The tiling of the remote variant followed by its inverse, on the padded
\* input and on the tensor of its positions.
RoundTripRemote ==
    /\ att.pc = "built"
    /\ LET xp == PadInput(att.x, att.window_size)
           n1 == NumWinH(att.window_size, att.x.H)
           n2 == NumWinW(att.window_size, att.x.W)
       IN  att' = Called("tile_remote", UntileRemote(TileRemote(xp, n1, n2), n1, n2),
                         UntileRemote(TileRemote(Positions(xp), n1, n2), n1, n2))
    /\ UNCHANGED <<blk, emo>>

RoundTripClose ==
    /\ att.pc = "built"
    /\ LET xp == PadInput(att.x, att.window_size)
           n1 == NumWinH(att.window_size, att.x.H)
           n2 == NumWinW(att.window_size, att.x.W)
       IN  att' = Called("tile_close", UntileClose(TileClose(xp, n1, n2), n1, n2),
                         UntileClose(TileClose(Positions(xp), n1, n2), n1, n2))
    /\ UNCHANGED <<blk, emo>>

NextAttn == CallRemote \/ CallClose \/ CallHybrid \/ RoundTripRemote \/ RoundTripClose

SpecAttn == InitAttn /\ [][NextAttn]_vars

(***************************************************************************)
(* Claims about the attention operators (checked under SpecAttn).          *)
(***************************************************************************)
IsForward == att.pc = "done" /\ att.op \in {"remote", "close", "hybrid"}

IsRoundTrip == att.pc = "done" /\ att.op \in {"tile_remote", "tile_close"}

\* C4: when the height and the width are multiples of the window size (no
\* padding is added), un-tiling the tiled input gives the input back, for the
\* remote and for the close tiling: every element is at its own position
\* again, for every window count and batch size.
C4_TileRoundTrip ==
    (IsRoundTrip /\ att.pad.r = 0 /\ att.pad.b = 0)
        => /\ att.out = att.x
           /\ att.pos = Positions(att.x)

C4_Witness ==
    /\ IsRoundTrip /\ att.op = "tile_close"
    /\ att.pad.r = 0 /\ att.pad.b = 0
    /\ att.n1 >= 2 /\ att.n2 >= 2 /\ att.window_size >= 2 /\ att.x.B >= 2
    /\ att.out = att.x

\* C5: for a window size w > 0, each forward pads (w - H % w) % w rows at the
\* bottom and (w - W % w) % w columns at the right and nothing at the top or
\* the left, the padded height and width are multiples of w, and the tensor
\* returned has the spatial size (H, W) of the input.
C5_Padding ==
    (IsForward /\ att.window_size > 0)
        => LET w == att.window_size
               H == att.x.H
               W == att.x.W
           IN  /\ att.pad.b = (w - (H % w)) % w
               /\ att.pad.r = (w - (W % w)) % w
               /\ att.pad.t = 0 /\ att.pad.l = 0
               /\ att.xp.H = H + att.pad.b /\ att.xp.W = W + att.pad.r
               /\ att.xp.H % w = 0 /\ att.xp.W % w = 0
               /\ \A p \in DOMAIN att.xp.d :
                      att.xp.d[p] = IF p[2] < H /\ p[3] < W THEN att.x.d[p] ELSE 0
               /\ att.out.B = att.x.B /\ att.out.H = H /\ att.out.W = W
               /\ DOMAIN att.out.d = Idx(att.x.B, H, W)

C5_Witness ==
    /\ IsForward /\ att.op = "hybrid" /\ att.window_size > 0
    /\ att.pad.b > 0 /\ att.pad.r > 0 /\ att.n1 >= 2
    /\ att.out.H = att.x.H /\ att.out.W = att.x.W

\* C6: with attn_pre = false, the output of the hybrid operator is the
\* elementwise sum of the outputs of the remote and of the close operator on
\* the same input, weights and window size, padded inputs included.
C6_HybridIsSum ==
    (IsForward /\ att.op = "hybrid" /\ ~att.attn_pre)
        => att.out = TensorAdd(RemoteForward(att.x, att.window_size, FALSE, att.w),
                               CloseForward(att.x, att.window_size, FALSE, att.w))

C6_Witness ==
    /\ IsForward /\ att.op = "hybrid" /\ ~att.attn_pre
    /\ att.pad.b > 0 /\ att.n1 >= 2 /\ att.n2 >= 2 /\ att.window_size >= 2
    /\ RemoteForward(att.x, att.window_size, FALSE, att.w)
         # CloseForward(att.x, att.window_size, FALSE, att.w)
    /\ att.out = TensorAdd(RemoteForward(att.x, att.window_size, FALSE, att.w),
                           CloseForward(att.x, att.window_size, FALSE, att.w))

\* C11: in the hybrid forward, with attn_pre and without it, each branch's
\* attended tokens are un-tiled with the inverse of the branch's own tiling:
\* before the two branches are summed, the token of the remote branch and the
\* token of the close branch that sit at a padded position were both gathered
\* from that position.
C11_BranchesPutBack ==
    (IsForward /\ att.op = "hybrid")
        => /\ att.pos.remote = Positions(att.xp)
           /\ att.pos.close = Positions(att.xp)

\* The part of C11 that the code keeps: the remote branch always, the close
\* branch without attn_pre.
C11_PutBackWithoutAttnPre ==
    (IsForward /\ att.op = "hybrid")
        => /\ att.pos.remote = Positions(att.xp)
           /\ ~att.attn_pre => att.pos.close = Positions(att.xp)

\* C12: for a window size w > 0, padded size (Hp, Wp) and n1 = Hp / w,
\* n2 = Wp / w windows, token (a, b) of window (i, j) of an image is the pixel
\* (a * n1 + i, b * n2 + j) in the remote tiling and the pixel
\* (i * w + a, j * w + b) in the close tiling; every window holds w * w
\* tokens and every padded pixel is in exactly one window.
C12_TilingWindows ==
    (att.pc = "done" /\ att.op \in {"remote", "close"} /\ att.window_size > 0)
        => LET w  == att.window_size
               Hp == att.xp.H
               Wp == att.xp.W
               n1 == att.n1
               n2 == att.n2
               t  == att.pos
               N  == att.x.B * Hp * Wp
           IN  /\ n1 * w = Hp /\ n2 * w = Wp
               /\ t.B = att.x.B * n1 * n2 /\ t.H = w /\ t.W = w
               /\ DOMAIN t.d = Idx(att.x.B * n1 * n2, w, w)
               /\ \A p \in DOMAIN t.d :
                      LET img == p[1] \div (n1 * n2)
                          i   == (p[1] \div n2) % n1
                          j   == p[1] % n2
                          a   == p[2]
                          b   == p[3]
                          row == IF att.op = "remote" THEN a * n1 + i ELSE i * w + a
                          col == IF att.op = "remote" THEN b * n2 + j ELSE j * w + b
                      IN  t.d[p] = (img * Hp + row) * Wp + col
               /\ Cardinality(DOMAIN t.d) = N
               /\ { t.d[p] : p \in DOMAIN t.d } = 0..(N - 1)

C12_Witness ==
    /\ att.pc = "done" /\ att.op = "remote"
    /\ att.window_size = 2 /\ att.n1 = 2 /\ att.n2 = 2 /\ att.x.B = 2
    /\ att.pad.b > 0
    /\ att.pos.d[<<0, 0, 1>>] = 2
    /\ att.pos.d[<<7, 1, 1>>] = 31
    /\ att.pos # CloseGather(att.x, att.window_size)


(***************************************************************************)
(* Shapes <<B, C, H, W>>.  NoShape is the outcome of an operation that     *)
(* raises; an operation on NoShape raises too.                             *)
(***************************************************************************)
NoShape == <<>>

IsShape(s) == s # NoShape

CeilDiv(a, b) == (a + b - 1) \div b

\* ConvNormAct(dim_in, dim_out, kernel_size, stride): dim_out channels, the
\* spatial size divided by the stride; an input of other than dim_in channels
\* is a shape error.
ConvNormActShape(s, dim_in, dim_out, stride) ==
    IF ~IsShape(s) \/ s[2] # dim_in \/ dim_out <= 0
    THEN NoShape
    ELSE <<s[1], dim_out, CeilDiv(s[3], stride), CeilDiv(s[4], stride)>>

\* a + b of two tensors, with the broadcasting of an axis of length 1
BroadcastDim(a, b) == IF a = b THEN a ELSE IF a = 1 THEN b ELSE IF b = 1 THEN a ELSE 0

AddShape(s, t) ==
    IF ~IsShape(s) \/ ~IsShape(t) \/ \E i \in 1..4 : BroadcastDim(s[i], t[i]) = 0
    THEN NoShape
    ELSE [i \in 1..4 |-> BroadcastDim(s[i], t[i])]

\* The three attention forwards on shapes: self.qk needs dim_in channels and
\* the rearrange of qk needs heads * dim_head = dim_in; with attn_pre the
\* attended tensor has dim_in channels and self.v maps it to dim_mid, without
\* it the rearrange of v needs dim_mid divisible by the heads.
AttentionShape(s, dim_in, dim_mid, dim_head, window_size, attn_pre) ==
    LET num_head == dim_in \div dim_head
        pad_r == PadRight(window_size, s[4])
        pad_b == PadBottom(window_size, s[3])
        n1 == NumWinH(window_size, s[3])
        n2 == NumWinW(window_size, s[4])
        tile == <<s[1] * n1 * n2, s[2], (s[3] + pad_b) \div n1, (s[4] + pad_r) \div n2>>
        qk == ConvNormActShape(tile, dim_in, 2 * dim_in, 1)
        x_spa == IF attn_pre
                 THEN ConvNormActShape(tile, dim_in, dim_mid, 1)
                 ELSE IF dim_mid % num_head = 0
                      THEN ConvNormActShape(tile, dim_in, dim_mid, 1)
                      ELSE NoShape
        untiled == <<x_spa[1] \div (n1 * n2), x_spa[2], x_spa[3] * n1, x_spa[4] * n2>>
    IN  IF ~IsShape(s) \/ ~IsShape(qk) \/ num_head * dim_head # dim_in \/ ~IsShape(x_spa)
        THEN NoShape
        ELSE IF pad_r > 0 \/ pad_b > 0
             THEN <<untiled[1], untiled[2],
                    IF s[3] < untiled[3] THEN s[3] ELSE untiled[3],
                    IF s[4] < untiled[4] THEN s[4] ELSE untiled[4]>>
             ELSE untiled

(***************************************************************************)
(* iiRMB.  The arguments are a record a; exp_ratio is given in halves      *)
(* (a.exp_ratio2 = 2 * exp_ratio), so that int(dim_in * exp_ratio) is an   *)
(* integer division.                                                       *)
(***************************************************************************)
DimMid(a) == (a.dim_in * a.exp_ratio2) \div 2

\* The configured flag alone.
HasSkip_FlagOnly(a) == a.has_skip

\* self.has_skip = (dim_in == dim_out and stride == 1) and has_skip
HasSkip(a) == (a.dim_in = a.dim_out /\ a.stride = 1) /\ a.has_skip

\* The if / elif chain over eop_idx; "None" is the else branch.
EopOf(eop_idx) ==
    CASE eop_idx = 0 -> "Conv"
      [] eop_idx = 1 -> "EW_MHSA_Remote"
      [] eop_idx = 2 -> "EW_MHSA_Close"
      [] eop_idx = 3 -> "EW_MHSA_Hybrid"
      [] OTHER -> "None"

IsModule(eop) == eop # "None"

\* for eop_idx in self.hybrid_eops: ...; if eop: eops.append(eop)
BuildEops(hybrid_eops) ==
    SelectSeq([k \in DOMAIN hybrid_eops |-> EopOf(hybrid_eops[k])], IsModule)

\* iiRMB.__init__
iiRMB(a) ==
    [a |-> a,
     has_skip |-> HasSkip(a),
     dim_mid |-> DimMid(a),
     eops |-> BuildEops(a.hybrid_eops),
     conv_local |-> IF a.dw_ks > 0 THEN "ConvNormAct" ELSE "Identity"]

\* eop(x) for one operator of the block
EopShape(eop, b, s) ==
    IF eop = "Conv"
    THEN ConvNormActShape(s, b.a.dim_in, b.dim_mid, 1)
    ELSE AttentionShape(s, b.a.dim_in, b.dim_mid, b.a.dim_head, b.a.window_size,
                        b.a.attn_pre)

\* sum(xs): 0 + xs[0] + xs[1] + ...
RECURSIVE SumShapes(_, _)
SumShapes(xs, n) ==
    IF n = 1 THEN xs[1] ELSE AddShape(SumShapes(xs, n - 1), xs[n])

\* self.conv_local(x)
ConvLocalShape(b, s) ==
    IF b.conv_local = "Identity"
    THEN s
    ELSE ConvNormActShape(s, b.dim_mid, b.dim_mid, b.a.stride)

\* The projection made to dim_mid channels instead of dim_out.
ProjShape_ToDimMid(b, s) == ConvNormActShape(s, b.dim_mid, b.dim_mid, 1)

\* self.proj(x)
ProjShape(b, s) == ConvNormActShape(s, b.dim_mid, b.a.dim_out, 1)

\* iiRMB.forward: the shape returned (NoShape when it raises), and the terms
\* of the two conditional sums.
iiRMBForward(b, shortcut) ==
    LET xs == [k \in DOMAIN b.eops |-> EopShape(b.eops[k], b, shortcut)]
        x == IF Len(b.eops) = 0
             THEN NoShape
             ELSE IF Len(b.eops) > 1 THEN SumShapes(xs, Len(xs)) ELSE xs[1]
        x_l == ConvLocalShape(b, x)
        x_mid == IF b.has_skip THEN AddShape(x, x_l) ELSE x_l
        x_proj == ProjShape(b, x_mid)
    IN  [shape |-> IF b.has_skip THEN AddShape(shortcut, x_proj) ELSE x_proj,
         error |-> IF Len(b.eops) = 0 THEN "IndexError" ELSE "none",
         local |-> IF b.has_skip THEN {"x", "x_l"} ELSE {"x_l"},
         result |-> IF b.has_skip THEN {"shortcut", "ls"} ELSE {"ls"}]

(***************************************************************************)
(* A block as a state machine: built from its arguments, then called.      *)
(***************************************************************************)
MaxIn == 3

EopLists == { <<>>, <<0>>, <<1>>, <<2>>, <<3>>, <<4>>, <<0, 1>>, <<1, 2>>, <<1, 1>>,
              <<3, 4>>, <<4, 0>>, <<0, 3, 2>> }

BlockArgs ==
    { [dim_in |-> di, dim_out |-> di * m, has_skip |-> hs, exp_ratio2 |-> er,
       dw_ks |-> ks, stride |-> st, dim_head |-> dh, window_size |-> ws,
       hybrid_eops |-> he, attn_pre |-> ap] :
      di \in {1, 2, 4}, m \in {1, 2}, hs \in BOOLEAN, er \in {2, 3, 4}, ks \in {0, 3},
      st \in {1, 2}, dh \in {1, 2}, ws \in {0, 2}, he \in EopLists, ap \in BOOLEAN }

InitBlock ==
    /\ blk \in { [pc |-> "args", a |-> a] : a \in BlockArgs }
    /\ att = NoAttention
    /\ emo = NoModel

\* iiRMB.__init__
BlockNew ==
    /\ blk.pc = "args"
    /\ blk' = [pc |-> "built", a |-> blk.a, m |-> iiRMB(blk.a)]
    /\ UNCHANGED <<att, emo>>

\* iiRMB.forward on an input of dim_in channels
BlockCall ==
    /\ blk.pc = "built"
    /\ \E B \in {2}, H \in 1..MaxIn, W \in 1..MaxIn :
         blk' = [pc |-> "called", a |-> blk.a, m |-> blk.m,
                 x |-> <<B, blk.a.dim_in, H, W>>,
                 out |-> iiRMBForward(blk.m, <<B, blk.a.dim_in, H, W>>)]
    /\ UNCHANGED <<att, emo>>

NextBlock == BlockNew \/ BlockCall

SpecBlock == InitBlock /\ [][NextBlock]_vars

(***************************************************************************)
(* Claims about the block (checked under SpecBlock).                       *)
(***************************************************************************)
\* C7: has_skip of a block is (dim_in = dim_out) and (stride = 1) and the
\* configured flag, fixed when the block is built; when dim_in # dim_out or
\* stride # 1 it is false whatever the flag, and forward then adds neither
\* the operator output to the local-mixing output nor the block input to the
\* result.
C7_SkipForcedOff ==
    (blk.pc \in {"built", "called"})
        => /\ blk.m.has_skip
                = (blk.a.dim_in = blk.a.dim_out /\ blk.a.stride = 1 /\ blk.a.has_skip)
           /\ (blk.a.dim_in # blk.a.dim_out \/ blk.a.stride # 1)
                => /\ ~blk.m.has_skip
                   /\ blk.pc = "called"
                        => (blk.out.local = {"x_l"} /\ blk.out.result = {"ls"})

C7_Witness ==
    /\ blk.pc = "called"
    /\ blk.a.has_skip /\ blk.a.stride = 2 /\ blk.a.dim_in = blk.a.dim_out
    /\ IsShape(blk.out.shape)
    /\ blk.out.local = {"x_l"} /\ blk.out.result = {"ls"}

\* C8: building a block whose hybrid_eops holds a tag outside {0, 1, 2, 3}
\* fails: no block with such a tag is ever built or called.
C8_InvalidTagNotBuilt ==
    (blk.pc \in {"built", "called"})
        => \A k \in DOMAIN blk.a.hybrid_eops : blk.a.hybrid_eops[k] \in {0, 1, 2, 3}

\* C10: a block with has_skip = true returns a tensor of exactly the shape
\* of its input, whenever its forward returns.
C10_SkipKeepsShape ==
    (blk.pc = "called" /\ blk.m.has_skip /\ IsShape(blk.out.shape))
        => blk.out.shape = blk.x

C10_Witness ==
    /\ blk.pc = "called" /\ blk.m.has_skip
    /\ blk.a.exp_ratio2 = 3 /\ blk.a.dw_ks = 3 /\ Len(blk.m.eops) = 3
    /\ blk.x[3] = 3 /\ blk.a.window_size = 2
    /\ blk.out.shape = blk.x


(***************************************************************************)
(* EMO2.  The configuration is a record cfg of the constructor arguments   *)
(* (the lists indexed 1..4 by stage).  The module tree is kept by stage    *)
(* and class: a module is <<stage, class>>, stage 0 the stem; the code     *)
(* treats all modules of one stage and class alike.                        *)
(***************************************************************************)
Stages == 0..4

\* get_norm: the class of the layer made for a norm_layer tag
NormClass(norm_layer) == IF norm_layer = "ln_2d" THEN "LayerNorm2d" ELSE "BatchNorm2d"

\* The modules of stage0 (get_stem) and stage1..stage4 (iiRMB blocks): the
\* list itself, the convolutions, the batch norms of the stem and of
\* conv_local, and the norm of each block.
BuiltModules(cfg) ==
    {<<i, c>> : i \in Stages, c \in {"ModuleList", "Conv2d", "BatchNorm2d"}}
        \cup {<<i, NormClass(cfg.norm_layers[i])>> : i \in 1..4}

\* torch.nn.SyncBatchNorm.convert_sync_batchnorm on every stage
SyncBn(mods) ==
    {IF m[2] = "BatchNorm2d" THEN <<m[1], "SyncBatchNorm">> ELSE m : m \in mods}

Modules(cfg) == IF cfg.sync_bn THEN SyncBn(BuiltModules(cfg)) ELSE BuiltModules(cfg)

HasParameters(m) == m[2] # "ModuleList"

\* isinstance(m, _BatchNorm)
IsBatchNorm(m) == m[2] \in {"BatchNorm2d", "SyncBatchNorm"}

IsNorm(m) == m[2] \in {"BatchNorm2d", "SyncBatchNorm", "LayerNorm2d"}

\* The channels of segment i: embed_dims[0] // 2 for the stem.
RECURSIVE SegmentDim(_, _)
SegmentDim(cfg, i) ==
    IF i = 0 THEN cfg.embed_dims[1] \div 2
    ELSE IF cfg.depths[i] > 0 THEN cfg.embed_dims[i] ELSE SegmentDim(cfg, i - 1)

\* self.state_dict() of the model as built: one entry per class of
\* parameters, its shape the channels of its stage.
OwnStateDict(cfg) ==
    [m \in {k \in BuiltModules(cfg) : HasParameters(k)} |->
        [shape |-> <<SegmentDim(cfg, m[1])>>, value |-> "init"]]

\* for k, v in state_dict.items(): if k in self_state_dict.keys(): update
MergeCheckpoint(own, ckpt) ==
    [k \in DOMAIN own |-> IF k \in DOMAIN ckpt THEN ckpt[k] ELSE own[k]]

\* load_state_dict(strict=True): a tensor of another shape than the
\* parameter's is a size mismatch, which raises.
LoadRaises(own, merged) == \E k \in DOMAIN own : merged[k].shape # own[k].shape

\* Stage k left out: range(0, frozen_stages).
FrozenStages_OffByOne(frozen_stages) == 0..(frozen_stages - 1)

\* range(0, self.frozen_stages + 1)
FrozenStages(frozen_stages) == 0..frozen_stages

\* m.eval() for the frozen stages
FreezeTraining(training, frozen_stages) ==
    [m \in DOMAIN training |->
        IF m[1] \in FrozenStages(frozen_stages) THEN FALSE ELSE training[m]]

\* param.requires_grad = False for the frozen stages
FreezeGrad(requires_grad, frozen_stages) ==
    [m \in DOMAIN requires_grad |->
        IF m[1] \in FrozenStages(frozen_stages) THEN FALSE ELSE requires_grad[m]]

\* nn.Module.train(mode): every module of the tree gets training = mode
ModuleTrain(training, mode) == [m \in DOMAIN training |-> mode]

\* The batch norms left as the global mode set them.
NormEval_Skipped(training, mode, norm_eval) == training

\* if mode and self.norm_eval: m.eval() for every _BatchNorm
NormEval(training, mode, norm_eval) ==
    IF mode /\ norm_eval
    THEN [m \in DOMAIN training |-> IF IsBatchNorm(m) THEN FALSE ELSE training[m]]
    ELSE training

\* stride of block j (from 0) of a stage
StrideOf(j) == IF j = 0 THEN 2 ELSE 1

\* emb_dim_pre when block j of stage i is built
EmbDimPre(cfg, i, j) == IF j = 0 THEN SegmentDim(cfg, i - 1) ELSE cfg.embed_dims[i]

\* The arguments of block j (from 0) of stage i.
StageBlockArgs(cfg, i, j) ==
    [dim_in |-> EmbDimPre(cfg, i, j),
     dim_out |-> cfg.embed_dims[i],
     has_skip |-> j # 0,
     exp_ratio2 |-> IF j = 0 THEN cfg.exp_ratios2[i] * 2 ELSE cfg.exp_ratios2[i],
     dw_ks |-> IF j = 0 THEN (IF cfg.dw_kss[i] > 0 THEN cfg.dw_kss[i] ELSE 5)
               ELSE cfg.dw_kss[i],
     stride |-> StrideOf(j),
     dim_head |-> cfg.dim_heads[i],
     window_size |-> cfg.window_sizes[i],
     hybrid_eops |-> IF j = 0 THEN <<0>> ELSE cfg.hybrid_eopss[i],
     attn_pre |-> cfg.attn_pre]

\* stage{i}: nn.ModuleList(layers)
StageBlocks(cfg, i) == [j \in 1..cfg.depths[i] |-> iiRMB(StageBlockArgs(cfg, i, j - 1))]

\* get_stem and its three layers in turn
StemForward(cfg, s) ==
    LET mid == cfg.embed_dims[1] \div 2
    IN  ConvNormActShape(
          ConvNormActShape(ConvNormActShape(s, cfg.dim_in, mid, 2), mid, mid, 1),
          mid, mid, 1)

\* for blk in self.stage{i}: x = blk(x)
RECURSIVE RunBlocks(_, _, _)
RunBlocks(blocks, n, s) ==
    IF n = 0 THEN s ELSE iiRMBForward(blocks[n], RunBlocks(blocks, n - 1, s)).shape

\* The outputs returned in the order of the stages, as by
\* "if i in self.out_indices: out.append(x)".
SelectOut_InStageOrder(out, out_indices) ==
    LET picked == {out_indices[i] : i \in DOMAIN out_indices}
        Keep(k) == k \in picked
        kept == SelectSeq(<<0, 1, 2, 3, 4>>, Keep)
    IN  [i \in DOMAIN kept |-> out[kept[i] + 1]]

\* tuple([out[i] for i in self.out_indices])
SelectOut(out, out_indices) == [i \in DOMAIN out_indices |-> out[out_indices[i] + 1]]

\* out after the stem and the first n stages: x threaded through them
RECURSIVE SegmentOuts(_, _, _, _)
SegmentOuts(blocks, cfg, x, n) ==
    IF n = 0 THEN <<StemForward(cfg, x)>>
    ELSE LET out == SegmentOuts(blocks, cfg, x, n - 1)
         IN  Append(out, RunBlocks(blocks[n], Len(blocks[n]), out[n]))

\* EMO2.forward
EMO2Forward(blocks, cfg, x) ==
    LET out == SegmentOuts(blocks, cfg, x, 4)
    IN  IF IsShape(out[5])
        THEN [raised |-> FALSE, out |-> SelectOut(out, cfg.out_indices)]
        ELSE [raised |-> TRUE, out |-> <<>>]

(***************************************************************************)
(* The configurations and inputs explored.                                 *)
(***************************************************************************)
MaxOut == 2

RECURSIVE SeqsUpTo(_, _)
SeqsUpTo(S, n) ==
    IF n = 0 THEN {<<>>}
    ELSE SeqsUpTo(S, n - 1) \cup {Append(q, e) : q \in {r \in SeqsUpTo(S, n - 1) : Len(r) = n - 1}, e \in S}

OutIndices == SeqsUpTo(Stages, MaxOut) \cup {<<1, 2, 3, 4>>, <<0, 1, 2, 3, 4>>, <<4, 3, 2, 1, 0>>}

\* The defaults of EMO2.__init__ (exp_ratios 4.0 in halves).
DefaultCfg ==
    [dim_in |-> 3,
     depths |-> <<1, 2, 4, 2>>,
     embed_dims |-> <<64, 128, 256, 512>>,
     exp_ratios2 |-> <<8, 8, 8, 8>>,
     norm_layers |-> <<"bn_2d", "bn_2d", "ln_2d", "ln_2d">>,
     dw_kss |-> <<3, 3, 5, 5>>,
     dim_heads |-> <<32, 32, 32, 32>>,
     window_sizes |-> <<7, 7, 7, 7>>,
     hybrid_eopss |-> << <<0>>, <<0>>, <<1>>, <<1>> >>,
     attn_pre |-> FALSE,
     sync_bn |-> FALSE,
     out_indices |-> <<1, 2, 3, 4>>,
     pretrained |-> <<>>,
     frozen_stages |-> -1,
     norm_eval |-> FALSE]

\* A smaller network with every operator, a padded window and no depthwise
\* kernel in the last stage.
SmallCfg ==
    [DefaultCfg EXCEPT !.depths = <<2, 1, 3, 2>>,
                       !.embed_dims = <<16, 32, 48, 64>>,
                       !.exp_ratios2 = <<4, 3, 4, 8>>,
                       !.norm_layers = <<"ln_2d", "bn_2d", "bn_2d", "ln_2d">>,
                       !.dw_kss = <<3, 5, 3, 0>>,
                       !.dim_heads = <<8, 16, 16, 32>>,
                       !.window_sizes = <<7, 5, 3, 0>>,
                       !.hybrid_eopss = << <<0, 2>>, <<0>>, <<3, 1>>, <<2>> >>,
                       !.attn_pre = TRUE]

\* A checkpoint: entries of a name of the state dict or of none ("Linear" of
\* stage 5 is the head of a classifier), the shape that of the parameter
\* (offset 0) or another one (offset 1).  <<>> is pretrained = None.
CheckpointKeys == {<<1, "Conv2d">>, <<4, "BatchNorm2d">>, <<5, "Linear">>}

CkptShape(cfg, k, offset) ==
    <<(IF k[1] \in Stages THEN SegmentDim(cfg, k[1]) ELSE 1000) + offset>>

Checkpoints ==
    UNION { [K -> {0, 1}] : K \in (SUBSET CheckpointKeys) \ {{}} }

LoadedCheckpoint(cfg) ==
    [k \in DOMAIN cfg.pretrained |->
        [shape |-> CkptShape(cfg, k, cfg.pretrained[k]), value |-> "ckpt"]]

LifeCfgs ==
    { [DefaultCfg EXCEPT !.frozen_stages = fs, !.norm_eval = ne, !.sync_bn = sb,
                         !.norm_layers = nl] :
      fs \in -1..4, ne \in BOOLEAN, sb \in BOOLEAN,
      nl \in {DefaultCfg.norm_layers, SmallCfg.norm_layers} }

LoadCfgs ==
    { [DefaultCfg EXCEPT !.pretrained = ck, !.frozen_stages = fs] :
      ck \in Checkpoints, fs \in {-1, 1} }

ForwardCfgs ==
    { [c EXCEPT !.out_indices = oi] : c \in {DefaultCfg, SmallCfg}, oi \in OutIndices }

ImageSides == {32, 64, 224}

InitEMO2 ==
    /\ emo \in { [pc |-> "args", cfg |-> c] : c \in LifeCfgs \cup LoadCfgs \cup ForwardCfgs }
    /\ att = NoAttention
    /\ blk = NoBlock

\* EMO2.__init__: the stages, _init_weights, _sync_bn, _freeze_stages
Construct ==
    /\ emo.pc = "args"
    /\ LET cfg == emo.cfg
           own == OwnStateDict(cfg)
           merged == IF cfg.pretrained = <<>>
                     THEN own
                     ELSE MergeCheckpoint(own, LoadedCheckpoint(cfg))
           training == [m \in Modules(cfg) |-> TRUE]
           requires_grad == [m \in {k \in Modules(cfg) : HasParameters(k)} |-> TRUE]
       IN  IF LoadRaises(own, merged)
           THEN emo' = [pc |-> "raised", cfg |-> cfg, error |-> "size mismatch"]
           ELSE emo' = [pc |-> "ready", cfg |-> cfg,
                        blocks |-> [i \in 1..4 |-> StageBlocks(cfg, i)],
                        state_dict |-> merged,
                        training |-> FreezeTraining(training, cfg.frozen_stages),
                        requires_grad |-> FreezeGrad(requires_grad, cfg.frozen_stages),
                        mode |-> <<>>,
                        call |-> <<>>]
    /\ UNCHANGED <<att, blk>>

\* EMO2.train(mode)
Train(mode) ==
    /\ emo.pc = "ready"
    /\ emo' = [emo EXCEPT
                 !.training = NormEval(
                                FreezeTraining(ModuleTrain(emo.training, mode),
                                               emo.cfg.frozen_stages),
                                mode, emo.cfg.norm_eval),
                 !.requires_grad = FreezeGrad(emo.requires_grad, emo.cfg.frozen_stages),
                 !.mode = <<mode>>]
    /\ UNCHANGED <<att, blk>>

\* EMO2.forward on an image batch.  The call changes nothing of the model,
\* so one call per model is explored.
Forward ==
    /\ emo.pc = "ready"
    /\ emo.call = <<>>
    /\ \E B \in {1, 2}, H \in ImageSides, W \in ImageSides :
         emo' = [emo EXCEPT
                   !.call = << [x |-> <<B, emo.cfg.dim_in, H, W>>,
                                res |-> EMO2Forward(emo.blocks, emo.cfg,
                                                    <<B, emo.cfg.dim_in, H, W>>)] >>]
    /\ UNCHANGED <<att, blk>>

NextEMO2 == Construct \/ Train(TRUE) \/ Train(FALSE) \/ Forward

SpecEMO2 == InitEMO2 /\ [][NextEMO2]_vars


(***************************************************************************)
(* Claims about the backbone (checked under SpecEMO2).                     *)
(***************************************************************************)
IsFrozen(m) == m[1] \in 0..emo.cfg.frozen_stages

\* C1: on a model built with frozen_stages = k, 0 <= k <= 4, after the
\* construction and after any sequence of train(True) / train(False), every
\* parameter of stage0..stage k has requires_grad = False and every module of
\* these stages, the normalization layers included, is in evaluation mode.
C1_FrozenStagesStayFrozen ==
    (emo.pc = "ready" /\ emo.cfg.frozen_stages \in 0..4)
        => \A m \in DOMAIN emo.training :
              m[1] <= emo.cfg.frozen_stages
                 => /\ ~emo.training[m]
                    /\ HasParameters(m) => ~emo.requires_grad[m]

C1_Witness ==
    /\ emo.pc = "ready" /\ emo.cfg.frozen_stages = 2 /\ emo.mode = <<TRUE>>
    /\ ~emo.cfg.sync_bn
    /\ emo.training[<<3, "Conv2d">>] /\ emo.requires_grad[<<3, "Conv2d">>]
    /\ ~emo.training[<<2, "BatchNorm2d">>] /\ ~emo.requires_grad[<<2, "BatchNorm2d">>]
    /\ ~emo.training[<<0, "ModuleList">>]

\* C2: a checkpoint entry that has the name of a parameter of the model and
\* another shape is skipped like a missing one: the construction does not
\* raise and the parameter keeps its own value and shape.
C2_MismatchSkipped ==
    (/\ emo.pc # "args"
     /\ \E k \in DOMAIN emo.cfg.pretrained :
           /\ k \in DOMAIN OwnStateDict(emo.cfg)
           /\ CkptShape(emo.cfg, k, emo.cfg.pretrained[k]) # OwnStateDict(emo.cfg)[k].shape)
        => /\ emo.pc = "ready"
           /\ \A k \in DOMAIN emo.cfg.pretrained :
                 (/\ k \in DOMAIN OwnStateDict(emo.cfg)
                  /\ CkptShape(emo.cfg, k, emo.cfg.pretrained[k])
                        # OwnStateDict(emo.cfg)[k].shape)
                    => emo.state_dict[k] = OwnStateDict(emo.cfg)[k]

RECURSIVE Pow2(_)
Pow2(n) == IF n = 0 THEN 1 ELSE 2 * Pow2(n - 1)

\* C3: on an input (B, 3, H, W) with H and W divisible by 32, forward returns
\* one tensor per entry of out_indices, in the order of out_indices; the
\* tensor of segment s has the spatial size (H / 2^(s+1), W / 2^(s+1)) and
\* embed_dims[0] // 2 channels for the stem (s = 0), embed_dims[s - 1] for
\* stage s.
C3_ForwardShapes ==
    (/\ emo.pc = "ready" /\ emo.call # <<>>
     /\ emo.call[1].x[3] % 32 = 0 /\ emo.call[1].x[4] % 32 = 0)
        => LET x == emo.call[1].x
               res == emo.call[1].res
               oi == emo.cfg.out_indices
           IN  /\ ~res.raised
               /\ Len(res.out) = Len(oi)
               /\ \A i \in 1..Len(oi) :
                     res.out[i] = <<x[1],
                                    IF oi[i] = 0 THEN emo.cfg.embed_dims[1] \div 2
                                    ELSE emo.cfg.embed_dims[oi[i]],
                                    x[3] \div Pow2(oi[i] + 1),
                                    x[4] \div Pow2(oi[i] + 1)>>

C3_Witness ==
    /\ emo.pc = "ready" /\ emo.call # <<>>
    /\ emo.cfg = [DefaultCfg EXCEPT !.out_indices = <<0, 1, 2, 3, 4>>]
    /\ emo.call[1].x = <<1, 3, 224, 224>>
    /\ emo.call[1].res.out = << <<1, 32, 112, 112>>, <<1, 64, 56, 56>>, <<1, 128, 28, 28>>,
                                <<1, 256, 14, 14>>, <<1, 512, 7, 7>> >>

\* C9 as stated: with norm_eval = true, after any train(mode) every
\* normalization layer, batch norm and layer norm alike, is in evaluation
\* mode; with norm_eval = false the modules outside the frozen stages have
\* training = mode.
C9_AllNormsEval ==
    (emo.pc = "ready" /\ emo.mode # <<>>)
        => /\ emo.cfg.norm_eval
                => \A m \in DOMAIN emo.training : IsNorm(m) => ~emo.training[m]
           /\ ~emo.cfg.norm_eval
                => \A m \in DOMAIN emo.training :
                      ~IsFrozen(m) => emo.training[m] = emo.mode[1]

\* C9 as amended: with norm_eval = true, after any train(mode) every batch
\* norm layer is in evaluation mode whatever the mode, while a layer norm
\* outside the frozen stages has training = mode; with norm_eval = false the
\* modules outside the frozen stages have training = mode.
C9_BatchNormsEval ==
    (emo.pc = "ready" /\ emo.mode # <<>>)
        => /\ emo.cfg.norm_eval
                => \A m \in DOMAIN emo.training :
                      /\ IsBatchNorm(m) => ~emo.training[m]
                      /\ (m[2] = "LayerNorm2d" /\ ~IsFrozen(m))
                            => emo.training[m] = emo.mode[1]
           /\ ~emo.cfg.norm_eval
                => \A m \in DOMAIN emo.training :
                      ~IsFrozen(m) => emo.training[m] = emo.mode[1]

C9_Witness ==
    /\ emo.pc = "ready" /\ emo.mode = <<TRUE>> /\ emo.cfg.norm_eval
    /\ emo.cfg.frozen_stages = 1 /\ emo.cfg.sync_bn
    /\ ~emo.training[<<4, "SyncBatchNorm">>]
    /\ emo.training[<<4, "LayerNorm2d">>]
    /\ emo.training[<<4, "Conv2d">>]

====
